---- MODULE Spec2Model ----
(***************************************************************************)
(* Task Manager API (examples/fastapi/app): the five request handlers of   *)
(* main.py over the tasks table of models.py, with the request and         *)
(* response shapes of schemas.py.                                          *)
(*                                                                         *)
(* JSON and column values are tagged tuples, so that a null, a string, an  *)
(* integer and a boolean can be told apart the way pydantic and the        *)
(* database tell them apart: <<"null">>, <<"str", s>>, <<"int", n>>,       *)
(* <<"bool", b>>, and <<"time", n>> for a datetime.  A request body is a   *)
(* function from the keys that were sent to their values: a key that is    *)
(* not in its DOMAIN was not sent, which is not the same as a key sent     *)
(* with the value <<"null">>.                                              *)
(***************************************************************************)
EXTENDS Integers, Sequences, FiniteSets, TLC

VARIABLES
    store,     \* the rows of the tasks table, in the table's scan order
    seq,       \* the highest id the table has handed out so far
    clock,     \* datetime.utcnow(): one tick per request
    last,      \* the last request with its response and the table before it
    fresh,     \* history: <<id, body>> of created tasks no PUT or DELETE has addressed yet
    deleted,   \* history: ids deleted with 204 since the last POST request
    putOk      \* history: ids of stored tasks a PUT has answered 200 for

vars == <<store, seq, clock, last, fresh, deleted, putOk>>

----------------------------------------------------------------------------
(* Bounds of the model. *)

\* Requests issued in one behaviour.
MaxRequests == 3

\* Path ids a request may name: 1..MaxPathId.
MaxPathId == 2

----------------------------------------------------------------------------
(* Values. *)

JNull == <<"null">>
JStr(s) == <<"str", s>>
JInt(n) == <<"int", n>>
JBool(b) == <<"bool", b>>
JTime(n) == <<"time", n>>

IsStr(v) == v[1] = "str"
IsInt(v) == v[1] = "int"
IsBool(v) == v[1] = "bool"
IsTime(v) == v[1] = "time"

\* Field(..., max_length=200) of TaskCreate.title.
TitleMaxLength == 200

\* Query(20, le=100) of list_tasks.limit.
LimitMax == 100

\* Query(20, le=100): the default limit.
LimitDefault == 20

\* Titles of exactly 200 and of 201 characters.
Title200 == "tttttttttttttttttttttttttttttttttttttttttttttttttttttttttttttttttttttttttttttttttttttttttttttttttttttttttttttttttttttttttttttttttttttttttttttttttttttttttttttttttttttttttttttttttttttttttttttttttttttttt"
Title201 == "ttttttttttttttttttttttttttttttttttttttttttttttttttttttttttttttttttttttttttttttttttttttttttttttttttttttttttttttttttttttttttttttttttttttttttttttttttttttttttttttttttttttttttttttttttttttttttttttttttttttttt"

\* The rows of the users table.  No handler of main.py writes it.
Users == {1}

----------------------------------------------------------------------------
(* schemas.py *)

\* A declared field accepts a value of its type, and null when it is `T | None`.
Accepts(type, nullable, v) == v[1] = type \/ (nullable /\ v = JNull)

Key(body, k, default) == IF k \in DOMAIN body THEN body[k] ELSE default

\* TaskCreate: title is required, a str of at most 200 characters; the other
\* fields are validated only when sent.  Keys that are not fields are ignored.
TaskCreateValid(body) ==
    /\ "title" \in DOMAIN body
    /\ IsStr(body["title"])
    /\ Len(body["title"][2]) <= TitleMaxLength
    /\ "description" \in DOMAIN body => Accepts("str", TRUE, body["description"])
    /\ "status" \in DOMAIN body => Accepts("str", FALSE, body["status"])
    /\ "priority" \in DOMAIN body => Accepts("int", FALSE, body["priority"])
    /\ "assignee_id" \in DOMAIN body => Accepts("int", TRUE, body["assignee_id"])

\* Variant of TaskCreateDump: status and priority declared `= None`, so an
\* omitted one is dumped as null instead of "pending" and 0.
TaskCreateDump_NullDefaults(body) ==
    [title       |-> body["title"],
     description |-> Key(body, "description", JNull),
     status      |-> Key(body, "status", JNull),
     priority    |-> Key(body, "priority", JNull),
     assignee_id |-> Key(body, "assignee_id", JNull)]

\* payload.model_dump() of a TaskCreate: every field, defaults filled in.
TaskCreateDump(body) ==
    [title       |-> body["title"],
     description |-> Key(body, "description", JNull),
     status      |-> Key(body, "status", JStr("pending")),
     priority    |-> Key(body, "priority", JInt(0)),
     assignee_id |-> Key(body, "assignee_id", JNull)]

\* The fields TaskUpdate declares, each `T | None = None`.
TaskUpdateFields ==
    {"title", "description", "status", "priority", "is_completed", "assignee_id"}

TaskUpdateType(k) ==
    CASE k \in {"title", "description", "status"} -> "str"
      [] k \in {"priority", "assignee_id"} -> "int"
      [] k = "is_completed" -> "bool"

TaskUpdateValid(body) ==
    \A k \in DOMAIN body \cap TaskUpdateFields : Accepts(TaskUpdateType(k), TRUE, body[k])

\* payload.model_dump(exclude_unset=True): the declared fields that were sent.
TaskUpdateDump(body) ==
    [k \in DOMAIN body \cap TaskUpdateFields |-> body[k]]

\* TaskResponse, built from the attributes of a Task row (from_attributes).
TaskResponseValid(task) ==
    /\ Accepts("int", FALSE, task.id)
    /\ Accepts("str", FALSE, task.title)
    /\ Accepts("str", TRUE, task.description)
    /\ Accepts("str", FALSE, task.status)
    /\ Accepts("int", FALSE, task.priority)
    /\ Accepts("bool", FALSE, task.is_completed)
    /\ Accepts("time", FALSE, task.created_at)
    /\ Accepts("time", TRUE, task.updated_at)

TaskResponse(task) ==
    [id           |-> task.id,
     title        |-> task.title,
     description  |-> task.description,
     status       |-> task.status,
     priority     |-> task.priority,
     is_completed |-> task.is_completed,
     created_at   |-> task.created_at,
     updated_at   |-> task.updated_at]

----------------------------------------------------------------------------
(* models.py *)

\* Task(**dump) as the INSERT stores it: the column defaults fill is_completed
\* and created_at, updated_at has only an onupdate and stays NULL.
NewTask(id, dump, now) ==
    [id           |-> JInt(id),
     title        |-> dump.title,
     description  |-> dump.description,
     status       |-> dump.status,
     priority     |-> dump.priority,
     is_completed |-> JBool(FALSE),
     created_at   |-> JTime(now),
     updated_at   |-> JNull,
     assignee_id  |-> dump.assignee_id]

\* nullable=False on title and status (id is the primary key).
NotNullOK(task) == task.title # JNull /\ task.status # JNull

\* Variant of ForeignKeyOK: an engine that does not check the reference.
ForeignKeyOK_Unchecked(task) == TRUE

\* ForeignKey("users.id"): the persistence engine refuses a row whose
\* assignee_id is set and is no row of users.
ForeignKeyOK(task) ==
    task.assignee_id = JNull \/ task.assignee_id[2] \in Users

\* onupdate=datetime.utcnow: the UPDATE statement stamps updated_at; a flush
\* with no changed column emits no UPDATE.
Touch(old, new, now) ==
    IF new # old THEN [new EXCEPT !.updated_at = JTime(now)] ELSE new

RECURSIVE MaxIdOf(_)
MaxIdOf(rows) ==
    IF rows = <<>> THEN 0
    ELSE LET m == MaxIdOf(Tail(rows))
         IN IF Head(rows).id[2] > m THEN Head(rows).id[2] ELSE m

\* Integer primary key: the engine hands out either one more than the largest
\* id in the table (a rowid) or the next value of a sequence.
NewIds(rows, s) == {MaxIdOf(rows) + 1, s + 1}

----------------------------------------------------------------------------
(* main.py *)

\* Variant of Find: the filter on the id is left out, .first() gives the first row.
Find_Unfiltered(rows, id) == IF rows = <<>> THEN 0 ELSE 1

\* db.query(Task).filter(Task.id == task_id).first(): the position of the row,
\* 0 when there is none.
Find(rows, id) ==
    IF \E i \in 1..Len(rows) : rows[i].id = JInt(id)
    THEN CHOOSE i \in 1..Len(rows) :
             /\ rows[i].id = JInt(id)
             /\ \A j \in 1..(i - 1) : rows[j].id # JInt(id)
    ELSE 0

\* Variant of SetAttrs: `if value is not None: setattr(...)`, a null is skipped.
SetAttrs_SkipNull(task, dump) ==
    [k \in DOMAIN task |->
        IF k \in DOMAIN dump /\ dump[k] # JNull THEN dump[k] ELSE task[k]]

\* for key, value in dump.items(): setattr(task, key, value)
SetAttrs(task, dump) ==
    [k \in DOMAIN task |-> IF k \in DOMAIN dump THEN dump[k] ELSE task[k]]

\* `if status:` of list_tasks: a status that is None or empty adds no filter.
StatusGiven(status) == status # JNull /\ status[2] # ""

Filtered(rows, status) ==
    IF StatusGiven(status)
    THEN LET Keep(t) == t.status = status IN SelectSeq(rows, Keep)
    ELSE rows

Min(a, b) == IF a < b THEN a ELSE b

\* query.offset(skip).limit(limit).all(): the outcomes the engine can give, each
\* <<"rows", r>> or <<"fault">>.  A negative LIMIT is no limit for an engine
\* that takes it and an error for one that does not.
Page(rows, skip, limit) ==
    IF limit < 0
    THEN {<<"rows", SubSeq(rows, skip + 1, Len(rows))>>, <<"fault">>}
    ELSE {<<"rows", SubSeq(rows, skip + 1, Min(skip + limit, Len(rows)))>>}

\* Variant of Remove: the delete is never committed.
Remove_Uncommitted(rows, i) == rows

\* db.delete(task): the table without the row at position i.
Remove(rows, i) == SubSeq(rows, 1, i - 1) \o SubSeq(rows, i + 1, Len(rows))

Responses(rows) == [i \in 1..Len(rows) |-> TaskResponse(rows[i])]

\* What `last` records of a request.
Request(op, id, body, skip, limit, status, code, detail, resp) ==
    [op |-> op, id |-> id, body |-> body, skip |-> skip, limit |-> limit,
     status |-> status, code |-> code, detail |-> detail, resp |-> resp,
     pre |-> store]

NotFound == "Task not found"

Untouched(id) == {f \in fresh : f[1] # id}

\* GET /api/tasks
list_tasks(skip, limit, status) ==
    /\ clock < MaxRequests
    /\ clock' = clock + 1
    /\ UNCHANGED <<store, seq, fresh, deleted, putOk>>
    /\ IF skip < 0 \/ limit > LimitMax
       THEN last' = Request("list", 0, <<>>, skip, limit, status, 422, "", <<>>)
       ELSE \E page \in Page(Filtered(store, status), skip, limit) :
                IF page[1] = "rows"
                     /\ \A i \in 1..Len(page[2]) : TaskResponseValid(page[2][i])
                THEN last' = Request("list", 0, <<>>, skip, limit, status, 200, "",
                                     Responses(page[2]))
                ELSE last' = Request("list", 0, <<>>, skip, limit, status, 500, "", <<>>)

\* GET /api/tasks/{task_id}
get_task(task_id) ==
    /\ clock < MaxRequests
    /\ clock' = clock + 1
    /\ UNCHANGED <<store, seq, fresh, deleted, putOk>>
    /\ LET i == Find(store, task_id) IN
       IF i = 0
       THEN last' = Request("get", task_id, <<>>, 0, 0, JNull, 404, NotFound, <<>>)
       ELSE IF TaskResponseValid(store[i])
       THEN last' = Request("get", task_id, <<>>, 0, 0, JNull, 200, "",
                            <<TaskResponse(store[i])>>)
       ELSE last' = Request("get", task_id, <<>>, 0, 0, JNull, 500, "", <<>>)

\* POST /api/tasks
create_task(body) ==
    /\ clock < MaxRequests
    /\ clock' = clock + 1
    /\ deleted' = {}
    /\ UNCHANGED putOk
    /\ IF ~TaskCreateValid(body)
       THEN /\ last' = Request("create", 0, body, 0, 0, JNull, 422, "", <<>>)
            /\ UNCHANGED <<store, seq, fresh>>
       ELSE \E id \in NewIds(store, seq) :
            LET task == NewTask(id, TaskCreateDump(body), clock + 1) IN
            IF ~(NotNullOK(task) /\ ForeignKeyOK(task))
            THEN /\ last' = Request("create", 0, body, 0, 0, JNull, 500, "", <<>>)
                 /\ UNCHANGED <<store, seq, fresh>>
            ELSE /\ store' = Append(store, task)
                 /\ seq' = IF id > seq THEN id ELSE seq
                 /\ fresh' = fresh \cup {<<id, body>>}
                 /\ IF TaskResponseValid(task)
                    THEN last' = Request("create", id, body, 0, 0, JNull, 201, "",
                                         <<TaskResponse(task)>>)
                    ELSE last' = Request("create", id, body, 0, 0, JNull, 500, "", <<>>)

\* PUT /api/tasks/{task_id}
update_task(task_id, body) ==
    /\ clock < MaxRequests
    /\ clock' = clock + 1
    /\ UNCHANGED <<seq, deleted>>
    /\ fresh' = Untouched(task_id)
    /\ LET i == Find(store, task_id) IN
       IF ~TaskUpdateValid(body)
       THEN /\ last' = Request("update", task_id, body, 0, 0, JNull, 422, "", <<>>)
            /\ UNCHANGED <<store, putOk>>
       ELSE IF i = 0
       THEN /\ last' = Request("update", task_id, body, 0, 0, JNull, 404, NotFound, <<>>)
            /\ UNCHANGED <<store, putOk>>
       ELSE LET set == SetAttrs(store[i], TaskUpdateDump(body))
                task == Touch(store[i], set, clock + 1)
            IN  IF ~(NotNullOK(task) /\ ForeignKeyOK(task))
                THEN /\ last' = Request("update", task_id, body, 0, 0, JNull, 500, "", <<>>)
                     /\ UNCHANGED <<store, putOk>>
                ELSE /\ store' = [store EXCEPT ![i] = task]
                     /\ IF TaskResponseValid(task)
                        THEN /\ last' = Request("update", task_id, body, 0, 0, JNull, 200,
                                                "", <<TaskResponse(task)>>)
                             /\ putOk' = putOk \cup {task_id}
                        ELSE /\ last' = Request("update", task_id, body, 0, 0, JNull, 500,
                                                "", <<>>)
                             /\ UNCHANGED putOk

\* DELETE /api/tasks/{task_id}
delete_task(task_id) ==
    /\ clock < MaxRequests
    /\ clock' = clock + 1
    /\ UNCHANGED seq
    /\ fresh' = Untouched(task_id)
    /\ LET i == Find(store, task_id) IN
       IF i = 0
       THEN /\ last' = Request("delete", task_id, <<>>, 0, 0, JNull, 404, NotFound, <<>>)
            /\ UNCHANGED <<store, deleted, putOk>>
       ELSE /\ store' = Remove(store, i)
            /\ putOk' = putOk \ {task_id}
            /\ deleted' = deleted \cup {task_id}
            /\ last' = Request("delete", task_id, <<>>, 0, 0, JNull, 204, "", <<>>)

----------------------------------------------------------------------------
(* The requests a client sends. *)

PathIds == 1..MaxPathId

Skips == {-1, 0, 1}

Limits == {-1, 0, 1, LimitDefault, LimitMax, LimitMax + 1}

StatusParams == {JNull, JStr(""), JStr("pending")}

CreateBodies ==
    { <<>>,
      [title |-> JStr("a")],
      [title |-> JStr("")],
      [title |-> JStr(Title201)],
      [title |-> JStr(Title200), description |-> JStr("d"), status |-> JStr("done"),
       priority |-> JInt(1), assignee_id |-> JInt(1)],
      [title |-> JStr("a"), assignee_id |-> JInt(2)],
      [title |-> JStr("a"), status |-> JStr("")],
      [title |-> JStr("a"), priority |-> JStr("high")] }

UpdateBodies ==
    { <<>>,
      [title |-> JStr("b")],
      [title |-> JNull],
      [description |-> JStr("d")],
      [description |-> JNull],
      [status |-> JStr("done")],
      [status |-> JStr("pending")],
      [status |-> JStr("")],
      [status |-> JNull],
      [priority |-> JInt(1)],
      [priority |-> JNull],
      [priority |-> JStr("high")],
      [is_completed |-> JBool(TRUE)],
      [is_completed |-> JNull],
      [assignee_id |-> JInt(1)],
      [assignee_id |-> JInt(2)],
      [assignee_id |-> JNull],
      [title |-> JStr("b"), status |-> JStr("done"), priority |-> JInt(0)],
      [id |-> JInt(9), created_at |-> JTime(0), description |-> JStr("d")] }

Init ==
    /\ store = <<>>
    /\ seq = 0
    /\ clock = 0
    /\ last = [op |-> "none", id |-> 0, body |-> <<>>, skip |-> 0, limit |-> 0,
               status |-> JNull, code |-> 0, detail |-> "", resp |-> <<>>,
               pre |-> <<>>]
    /\ fresh = {}
    /\ deleted = {}
    /\ putOk = {}

Next ==
    \/ \E skip \in Skips, limit \in Limits, status \in StatusParams :
           list_tasks(skip, limit, status)
    \/ \E task_id \in PathIds : get_task(task_id)
    \/ \E body \in CreateBodies : create_task(body)
    \/ \E task_id \in PathIds, body \in UpdateBodies : update_task(task_id, body)
    \/ \E task_id \in PathIds : delete_task(task_id)

Spec == Init /\ [][Next]_vars

----------------------------------------------------------------------------
(* Properties. *)

Pre == last.pre

\* Whether a table holds a row with the id, and where.
Has(rows, id) == \E i \in 1..Len(rows) : rows[i].id = JInt(id)
Pos(rows, id) == CHOOSE i \in 1..Len(rows) : rows[i].id = JInt(id)

PreAt == Pos(Pre, last.id)
NowAt == Pos(store, last.id)

RowsOf(rows) == {rows[i] : i \in 1..Len(rows)}

\* C1: a PUT that returns 200 gives exactly the fields present in its body the
\* values sent (null included), leaves every TaskUpdate field that was not sent,
\* and always id and created_at, as they were, and changes no other task.
C1_PartialUpdate ==
    (last.op = "update" /\ last.code = 200) =>
        /\ Has(Pre, last.id)
        /\ Len(store) = Len(Pre)
        /\ \A k \in TaskUpdateFields :
               store[PreAt][k] =
                   IF k \in DOMAIN last.body THEN last.body[k] ELSE Pre[PreAt][k]
        /\ store[PreAt].id = Pre[PreAt].id
        /\ store[PreAt].created_at = Pre[PreAt].created_at
        /\ \A m \in 1..Len(store) : m # PreAt => store[m] = Pre[m]

\* A 200 PUT that set a stored description to null while a second task was stored.
C1_Witness ==
    /\ last.op = "update" /\ last.code = 200
    /\ Len(store) = 2
    /\ "description" \in DOMAIN last.body /\ last.body["description"] = JNull
    /\ Pre[PreAt].description # JNull
    /\ store[PreAt].description = JNull

\* C2 (as claimed): updated_at is unset exactly for the tasks no PUT has
\* answered 200 for; POST leaves it unset and every 200 PUT leaves it at the
\* time of that request.
C2_UpdatedAtOnEveryPut ==
    /\ \A i \in 1..Len(store) :
           (store[i].updated_at = JNull) <=> (store[i].id[2] \notin putOk)
    /\ (last.op = "create" /\ last.code = 201) =>
           store[NowAt].updated_at = JNull
    /\ (last.op = "update" /\ last.code = 200) =>
           store[NowAt].updated_at = JTime(clock)

\* A create payload is valid when TaskCreate accepts it and its assignee_id,
\* if set, is the id of a User.
ValidCreate(body) ==
    /\ TaskCreateValid(body)
    /\ ("assignee_id" \in DOMAIN body /\ body["assignee_id"] # JNull)
           => body["assignee_id"][2] \in Users

\* C3: a POST with a valid payload returns 201 with an id no stored task had,
\* and a GET of that id before any PUT or DELETE on it returns 200 with the
\* submitted title, description, status and priority ("pending" and 0 when
\* omitted), is_completed false, created_at set and updated_at unset.
C3_CreateThenGet ==
    /\ (last.op = "create" /\ ValidCreate(last.body)) =>
           /\ last.code = 201
           /\ \A i \in 1..Len(Pre) : Pre[i].id # JInt(last.id)
           /\ last.resp[1].id = JInt(last.id)
           /\ Has(store, last.id)
    /\ \A f \in fresh :
           (last.op = "get" /\ last.id = f[1]) =>
               /\ last.code = 200
               /\ last.resp[1].id = JInt(f[1])
               /\ last.resp[1].title = f[2]["title"]
               /\ last.resp[1].description = Key(f[2], "description", JNull)
               /\ last.resp[1].status = Key(f[2], "status", JStr("pending"))
               /\ last.resp[1].priority = Key(f[2], "priority", JInt(0))
               /\ last.resp[1].is_completed = JBool(FALSE)
               /\ IsTime(last.resp[1].created_at)
               /\ last.resp[1].updated_at = JNull

\* A GET of a task created with only a title, after another request came in between.
C3_Witness ==
    /\ last.op = "get" /\ last.code = 200
    /\ \E f \in fresh : f[1] = last.id /\ DOMAIN f[2] = {"title"}
    /\ clock = 3

\* C4 (as claimed): a POST whose title is missing, empty or longer than 200
\* characters is answered 422 and stores nothing.
C4_BadTitleRejected ==
    (/\ last.op = "create"
     /\ \/ "title" \notin DOMAIN last.body
        \/ last.body["title"] = JStr("")
        \/ (IsStr(last.body["title"]) /\ Len(last.body["title"][2]) > 200))
        => (last.code = 422 /\ store = Pre)

\* C5 (as claimed): with a status in the query, the empty string included,
\* every task of a 200 response has that status and, when skip and limit cover
\* the store, every stored task with that status is in the response; with no
\* status the tasks are not filtered.
C5_StatusFilter ==
    (last.op = "list" /\ last.code = 200) =>
        /\ last.status # JNull =>
               /\ \A i \in 1..Len(last.resp) : last.resp[i].status = last.status
               /\ (last.skip = 0 /\ last.limit >= Len(store)) =>
                      \A t \in RowsOf(store) :
                          t.status = last.status => TaskResponse(t) \in RowsOf(last.resp)
        /\ (last.status = JNull /\ last.skip = 0 /\ last.limit >= Len(store)) =>
               last.resp = Responses(store)

\* C6 (as claimed): skip < 0 or limit > 100 is answered 422; a 200 response is
\* exactly positions skip .. skip+limit-1 of the filtered sequence, so it holds
\* at most limit and at most 100 tasks.
C6_SkipLimit ==
    last.op = "list" =>
        /\ (last.skip < 0 \/ last.limit > 100) => (last.code = 422 /\ last.resp = <<>>)
        /\ last.code = 200 =>
               /\ last.resp =
                      Responses(SubSeq(Filtered(store, last.status), last.skip + 1,
                                       Min(last.skip + last.limit,
                                           Len(Filtered(store, last.status)))))
               /\ Len(last.resp) <= 100
               /\ last.limit >= 0 => Len(last.resp) <= last.limit

\* C7: after a DELETE that returns 204 the task is not in the store and every
\* other task is as it was; a GET of that id with no POST in between returns
\* 404, and no list response in between holds a task with that id.
C7_DeleteThenGet ==
    /\ (last.op = "delete" /\ last.code = 204) =>
           /\ Has(Pre, last.id)
           /\ ~Has(store, last.id)
           /\ Len(store) = Len(Pre) - 1
           /\ \A m \in 1..Len(Pre) :
                  /\ m < PreAt => store[m] = Pre[m]
                  /\ m > PreAt => store[m - 1] = Pre[m]
    /\ \A id \in deleted :
           /\ \A i \in 1..Len(store) : store[i].id # JInt(id)
           /\ (last.op = "get" /\ last.id = id) =>
                  (last.code = 404 /\ last.detail = "Task not found")
           /\ last.op = "list" =>
                  \A i \in 1..Len(last.resp) : last.resp[i].id # JInt(id)

\* A GET of an id that was deleted two requests ago.
C7_Witness ==
    /\ last.op = "get" /\ last.id \in deleted /\ last.code = 404
    /\ clock = 3

\* C8 (as claimed): GET, PUT and DELETE of an id that is not in the store are
\* answered 404 "Task not found" and leave the store as it was.
C8_AbsentIdIs404 ==
    (last.op \in {"get", "update", "delete"} /\ ~Has(Pre, last.id)) =>
        /\ last.code = 404
        /\ last.detail = "Task not found"
        /\ store = Pre

\* C8 (amended): the same, for a PUT whose body passes TaskUpdate's validation;
\* a PUT with a body that does not is answered 422, its id stored or not, and
\* leaves the store as it was too.
C8_AbsentIdIs404_ValidBody ==
    (last.op \in {"get", "update", "delete"} /\ ~Has(Pre, last.id)) =>
        /\ store = Pre
        /\ IF last.op = "update" /\ ~TaskUpdateValid(last.body)
           THEN last.code = 422
           ELSE last.code = 404 /\ last.detail = "Task not found"

\* A PUT with fields to apply, on an id that is absent while another task is stored.
C8_Witness ==
    /\ last.op = "update" /\ ~Has(Pre, last.id) /\ last.code = 404
    /\ DOMAIN last.body # {}
    /\ Len(store) >= 1

C10_ResponseShape ==
    /\ \A i \in 1..Len(store) :
           /\ IsStr(store[i].title)
           /\ IsStr(store[i].status)
           /\ IsInt(store[i].priority)
           /\ IsBool(store[i].is_completed)
    /\ (last.op = "get" /\ Has(Pre, last.id)) => last.code = 200
    /\ last.op = "update" => last.code \in {200, 404, 422}

====
